---- MODULE Spec2Model ----
(***************************************************************************)
(* Model of achievement_generator.py: FontManager.find_font,               *)
(* TextRenderer.wrap_text / render_text_block, GlowEffect.create_glow_mask *)
(* / apply_glow, AchievementGenerator.draw_container / create_achievement. *)
(*                                                                         *)
(* Texts are sequences of one-character strings; " " is the only           *)
(* whitespace character.  A font handle is a record [src, size, adv]; adv  *)
(* gives the advance width of each character and getlength adds them up.   *)
(***************************************************************************)
EXTENDS Integers, Sequences, FiniteSets, TLC

\* ---------------------------------------------------------------- bounds
MaxLen == 6
MaxWidth == 6
MaxCalls == 2

Chars == {"a", "b", " "}

Min(a, b) == IF a <= b THEN a ELSE b

\* ------------------------------------------------------- string helpers
\* str.split() with no argument: tokens are maximal runs of non-whitespace.
RECURSIVE split_loop(_, _, _)
split_loop(text, cur, out) ==
    IF text = <<>>
    THEN IF cur = <<>> THEN out ELSE Append(out, cur)
    ELSE IF Head(text) = " "
         THEN split_loop(Tail(text), <<>>, IF cur = <<>> THEN out ELSE Append(out, cur))
         ELSE split_loop(Tail(text), Append(cur, Head(text)), out)

split(text) == split_loop(text, <<>>, <<>>)

\* ' '.join(words)
RECURSIVE join(_)
join(words) ==
    IF words = <<>> THEN <<>>
    ELSE IF Len(words) = 1 THEN Head(words)
    ELSE Head(words) \o <<" ">> \o join(Tail(words))

\* font.getlength(s): the advance widths of the characters, added up.
RECURSIVE getlength(_, _)
getlength(font, s) ==
    IF s = <<>> THEN 0 ELSE font.adv[Head(s)] + getlength(font, Tail(s))

\* ------------------------------------------------------------ wrap_text
\* One iteration of the for loop of wrap_text; st = [lines, current_line].
wrap_step_loseword(word, font, max_width, st) ==
    LET current_line == Append(st.current_line, word)
        text_width == getlength(font, join(current_line))
    IN  IF text_width > max_width
        THEN IF Len(current_line) > 1
             THEN [lines |-> Append(st.lines, join(SubSeq(current_line, 1, Len(current_line) - 1))),
                   current_line |-> <<>>]
             ELSE [lines |-> Append(st.lines, word), current_line |-> <<>>]
        ELSE [lines |-> st.lines, current_line |-> current_line]

wrap_step_nopop(word, font, max_width, st) ==
    LET current_line == Append(st.current_line, word)
        text_width == getlength(font, join(current_line))
    IN  IF text_width > max_width
        THEN IF Len(current_line) > 1
             THEN [lines |-> Append(st.lines, join(current_line)),
                   current_line |-> <<>>]
             ELSE [lines |-> Append(st.lines, word), current_line |-> <<>>]
        ELSE [lines |-> st.lines, current_line |-> current_line]

wrap_step_cut(word, font, max_width, st) ==
    LET current_line == Append(st.current_line, word)
        text_width == getlength(font, join(current_line))
    IN  IF text_width > max_width
        THEN IF Len(current_line) > 1
             THEN [lines |-> Append(st.lines, join(SubSeq(current_line, 1, Len(current_line) - 1))),
                   current_line |-> <<word>>]
             ELSE [lines |-> Append(st.lines, SubSeq(word, 1, Len(word) - 1)),
                   current_line |-> <<>>]
        ELSE [lines |-> st.lines, current_line |-> current_line]

wrap_step(word, font, max_width, st) ==
    LET current_line == Append(st.current_line, word)
        text_width == getlength(font, join(current_line))
    IN  IF text_width > max_width
        THEN IF Len(current_line) > 1
             THEN [lines |-> Append(st.lines, join(SubSeq(current_line, 1, Len(current_line) - 1))),
                   current_line |-> <<word>>]
             ELSE [lines |-> Append(st.lines, word), current_line |-> <<>>]
        ELSE [lines |-> st.lines, current_line |-> current_line]

RECURSIVE wrap_loop(_, _, _, _)
wrap_loop(words, font, max_width, st) ==
    IF words = <<>> THEN st
    ELSE wrap_loop(Tail(words), font, max_width, wrap_step(Head(words), font, max_width, st))

wrap_text(text, font, max_width) ==
    LET words == split(text)
        st == wrap_loop(words, font, max_width, [lines |-> <<>>, current_line |-> <<>>])
    IN  IF st.current_line # <<>>
        THEN Append(st.lines, join(st.current_line))
        ELSE st.lines

\* ---------------------------------------------------- render_text_block
\* Returns the draw.text calls made, in order, and the returned y.
render_text_block_all(text, font, start_pos, max_width, color, line_spacing) ==
    LET lines == wrap_text(text, font, max_width)
        shown == lines
    IN  [draws |-> [k \in 1..Len(shown) |->
                       [xy |-> <<start_pos[1], start_pos[2] + (k - 1) * line_spacing>>,
                        text |-> shown[k], font |-> font, fill |-> color]],
         y |-> start_pos[2] + Len(shown) * line_spacing]

render_text_block_nospacing(text, font, start_pos, max_width, color, line_spacing) ==
    LET lines == wrap_text(text, font, max_width)
        shown == SubSeq(lines, 1, Min(Len(lines), 2))
    IN  [draws |-> [k \in 1..Len(shown) |->
                       [xy |-> <<start_pos[1], start_pos[2]>>,
                        text |-> shown[k], font |-> font, fill |-> color]],
         y |-> start_pos[2] + Len(shown) * line_spacing]

render_text_block(text, font, start_pos, max_width, color, line_spacing) ==
    LET lines == wrap_text(text, font, max_width)
        shown == SubSeq(lines, 1, Min(Len(lines), 2))
    IN  [draws |-> [k \in 1..Len(shown) |->
                       [xy |-> <<start_pos[1], start_pos[2] + (k - 1) * line_spacing>>,
                        text |-> shown[k], font |-> font, fill |-> color]],
         y |-> start_pos[2] + Len(shown) * line_spacing]

\* ------------------------------------------------------------ find_font
FONT_PATHS ==
    << "/usr/share/fonts/google-noto/NotoSans-Bold.ttf",
       "/usr/share/fonts/google-noto/NotoSans-Regular.ttf" >>

FONT_PATHS_REGULAR ==
    << "/usr/share/fonts/google-noto/NotoSans-Regular.ttf" >>

\* What one ImageFont.truetype(path, size) attempt can do: load the font,
\* raise OSError (file missing or unreadable), or raise something that is
\* not an OSError (ValueError for a size that is not positive).
LoadOutcomes == {"ok", "OSError", "ValueError"}

\* What the fc-match step (subprocess + truetype) can do.
FcOutcomes == {"ok", "fail"}

\* Advance widths of the font loaded from src at the given size.
FontMetric(src, size) ==
    IF src = FONT_PATHS[1]
    THEN [c \in Chars |-> IF c = " " THEN size \div 4 ELSE (size * 3) \div 5]
    ELSE IF src = "load_default"
    THEN [c \in Chars |-> 6]
    ELSE [c \in Chars |-> IF c = " " THEN size \div 4 ELSE size \div 2]

FontHandle(src, size) == [src |-> src, size |-> size, adv |-> FontMetric(src, size)]

\* outcome[k] is what the attempt on font_paths[k] does, fc what the
\* fc-match step does.  Result: [raised, exc, font] with font a sequence of
\* zero or one handle.
RECURSIVE find_font_from(_, _, _, _, _)
find_font_from(font_paths, size, outcome, fc, k) ==
    IF k > Len(font_paths)
    THEN IF fc = "ok"
         THEN [raised |-> FALSE, exc |-> "", font |-> <<FontHandle("fc-match", size)>>]
         ELSE [raised |-> FALSE, exc |-> "", font |-> <<FontHandle("load_default", size)>>]
    ELSE IF outcome[k] = "ok"
         THEN [raised |-> FALSE, exc |-> "", font |-> <<FontHandle(font_paths[k], size)>>]
         ELSE IF outcome[k] = "OSError"
              THEN find_font_from(font_paths, size, outcome, fc, k + 1)
              ELSE [raised |-> TRUE, exc |-> outcome[k], font |-> <<>>]

find_font(font_paths, size, outcome, fc) == find_font_from(font_paths, size, outcome, fc, 1)

\* ----------------------------------------------------- create_glow_mask
RECURSIVE GCD(_, _)
GCD(a, b) == IF b = 0 THEN a ELSE GCD(b, a % b)

\* The least m in 0..top with m * m * d >= n.
CeilSqrtRatio(n, d, top) == CHOOSE m \in 0..top : m * m * d >= n /\ \A j \in 0..(m - 1) : j * j * d < n

\* round((1 - (i / radius) ** 1.5) * 255): the nearest integer (no value
\* of the expression lies half way between two integers).
opacity_round(i, radius) ==
    LET r3 == radius * radius * radius
        g == GCD(r3, 510 * 510)
        m == CeilSqrtRatio(((510 * 510) \div g) * (i * i * i), r3 \div g, 510)
    IN  ((510 - m) + 1) \div 2

\* int((1 - (i / radius) ** 1.5) * 255) for 1 <= i <= radius: the value is
\* not negative, so int() is the floor; (i / radius) ** 1.5 is the square
\* root of i^3 / radius^3.
opacity(i, radius) ==
    LET r3 == radius * radius * radius
        g == GCD(r3, 255 * 255)
        m == CeilSqrtRatio(((255 * 255) \div g) * (i * i * i), r3 \div g, 255)
    IN  255 - m

\* The ellipses drawn on the mask, in drawing order.
create_glow_mask(size, radius) ==
    [size |-> size,
     rings |-> [k \in 1..radius |->
                  LET i == radius - k + 1
                  IN  [i |-> i,
                       box |-> << size[1] \div 2 - i, size[2] \div 2 - i,
                                  size[1] \div 2 + i, size[2] \div 2 + i >>,
                       fill |-> opacity(i, radius)]]]

\* The paste apply_glow makes on the base image.
apply_glow(icon_pos, style) ==
    LET glow_size == style.icon_size + style.glow_size_extra
        mask == create_glow_mask(<<glow_size, glow_size>>, style.glow_radius)
        offset == style.glow_size_extra \div 2
    IN  [stage |-> "Glow",
         size |-> <<glow_size, glow_size>>,
         mask |-> mask,
         color |-> style.glow_color,
         alpha |-> [k \in 1..Len(mask.rings) |-> Min(mask.rings[k].fill, style.glow_alpha)],
         blur |-> <<5, 3>>,
         pos |-> <<icon_pos[1] - offset, icon_pos[2] - offset>>]

\* ------------------------------------------------------- draw_container
draw_container(style) ==
    LET container_padding == 2
        x1 == container_padding
        y1 == container_padding
        x2 == style.width - container_padding
        y2 == style.height - container_padding
        r == style.corner_radius
        corners == << <<x1, y1, 180, 270>>,
                      <<x2 - r * 2, y1, 270, 360>>,
                      <<x1, y2 - r * 2, 90, 180>>,
                      <<x2 - r * 2, y2 - r * 2, 0, 90>> >>
    IN  [stage |-> "Container",
         fill |-> style.container_color,
         rectangles |-> << <<x1 + r, y1, x2 - r, y2>>, <<x1, y1 + r, x2, y2 - r>> >>,
         pieslices |-> [k \in 1..4 |->
                          [box |-> << corners[k][1], corners[k][2],
                                      corners[k][1] + r * 2, corners[k][2] + r * 2 >>,
                           start |-> corners[k][3], end |-> corners[k][4]]]]

\* ----------------------------------------------------- AchievementStyle
DefaultStyle ==
    [width |-> 520, height |-> 96, icon_size |-> 64, padding |-> 16,
     corner_radius |-> 4, title_font_size |-> 15, desc_font_size |-> 13,
     background_color |-> <<22, 24, 28>>, container_color |-> <<38, 40, 44>>,
     text_color |-> <<255, 255, 255>>, desc_color |-> <<128, 128, 128>>,
     glow_color |-> <<255, 180, 50>>, glow_alpha |-> 160,
     glow_size_extra |-> 80, glow_radius |-> 40]

\* A narrow badge, passed as AchievementGenerator(style): short texts wrap.
NarrowStyle ==
    [DefaultStyle EXCEPT !.width = 120, !.height = 64, !.icon_size = 33,
                         !.padding = 8, !.glow_size_extra = 10, !.glow_radius = 5]

Styles == {DefaultStyle, NarrowStyle}

\* ------------------------------------------------------------- requests
Word == <<"a", "b">>
Words(n) == join([k \in 1..n |-> Word])

Names == {<<>>, Words(1), Words(4), Words(7)}
Descriptions == {Words(1), <<" ">> \o Words(7)}

\* ---------------------------------------------------------------- state
VARIABLES
    style,        \* self.style of the generator
    pc,           \* where create_achievement is
    req,          \* the arguments of the running call
    achievement,  \* the base image: zero or one [size, ops]
    stages,       \* the paint stages done in the running call, in order
    loc,          \* the locals of the running call
    fonts,        \* the find_font calls of the running call
    blocks,       \* the render_text_block calls of the running call
    ret,          \* what the call handed to its caller: zero or one image
    calls,        \* calls made on this generator
    history,      \* the layouts of the calls that returned
    wr            \* a wrap_text call on its own: [text, font, max_width, lines, done]

vars == <<style, pc, req, achievement, stages, loc, fonts, blocks, ret, calls, history, wr>>

NoLoc ==
    [icon_pos |-> <<0, 0>>, text_start_x |-> 0, text_area_width |-> 0,
     title_y |-> 0, desc_y |-> 0, text_y |-> 0,
     title_font |-> <<>>, desc_font |-> <<>>]

NoReq == [name |-> <<>>, description |-> <<>>, is_rare |-> FALSE]

NoWrap == [text |-> <<>>, font |-> FontHandle("load_default", 1), max_width |-> 0,
           lines |-> <<>>, done |-> FALSE]

Init ==
    /\ style \in Styles
    /\ pc = "idle"
    /\ req = NoReq
    /\ achievement = <<>>
    /\ stages = <<>>
    /\ loc = NoLoc
    /\ fonts = <<>>
    /\ blocks = <<>>
    /\ ret = <<>>
    /\ calls = 0
    /\ history = {}
    /\ wr = NoWrap

Paint(op) == [achievement EXCEPT ![1].ops = Append(@, op)]

\* --------------------------------------------------- create_achievement
\* The caller invokes create_achievement(name, description, icon_path, is_rare).
Call(name, description, is_rare) ==
    /\ pc \in {"idle", "done", "raised"}
    /\ calls < MaxCalls
    /\ calls' = calls + 1
    /\ req' = [name |-> name, description |-> description, is_rare |-> is_rare]
    /\ pc' = "base"
    /\ achievement' = <<>>
    /\ stages' = <<>>
    /\ loc' = NoLoc
    /\ fonts' = <<>>
    /\ blocks' = <<>>
    /\ ret' = <<>>
    /\ UNCHANGED <<style, history, wr>>

\* Image.new('RGBA', (width, height), background_color)
CreateBase ==
    /\ pc = "base"
    /\ achievement' = << [size |-> <<style.width, style.height>>,
                          ops |-> << [stage |-> "Background", fill |-> style.background_color] >>] >>
    /\ stages' = Append(stages, "Background")
    /\ pc' = "container"
    /\ UNCHANGED <<style, req, loc, fonts, blocks, ret, calls, history, wr>>

DrawContainer ==
    /\ pc = "container"
    /\ achievement' = Paint(draw_container(style))
    /\ stages' = Append(stages, "Container")
    /\ pc' = "open_icon"
    /\ UNCHANGED <<style, req, loc, fonts, blocks, ret, calls, history, wr>>

\* icon_x, icon_y, text_start_x
calc_positions_nohalf(st) ==
    LET icon_x == st.padding
        icon_y == st.height - st.icon_size
    IN  [icon_pos |-> <<icon_x, icon_y>>,
         text_start_x |-> icon_x + st.icon_size + st.padding]

calc_positions(st) ==
    LET icon_x == st.padding
        icon_y == (st.height - st.icon_size) \div 2
    IN  [icon_pos |-> <<icon_x, icon_y>>,
         text_start_x |-> icon_x + st.icon_size + st.padding]

\* if is_rare: apply_glow, then paste the icon
glow_branch_always(is_rare) == "glow"

glow_branch(is_rare) == IF is_rare THEN "glow" ELSE "paste"

\* Image.open(icon_path) and the resize succeed; the positions are computed.
OpenIcon ==
    /\ pc = "open_icon"
    /\ LET p == calc_positions(style)
       IN  loc' = [loc EXCEPT !.icon_pos = p.icon_pos, !.text_start_x = p.text_start_x]
    /\ pc' = glow_branch(req.is_rare)
    /\ UNCHANGED <<style, req, achievement, stages, fonts, blocks, ret, calls, history, wr>>

\* Image.open(icon_path) raises: the exception leaves create_achievement.
OpenIconFails_swallowed ==
    /\ pc = "open_icon"
    /\ pc' = "done"
    /\ ret' = achievement
    /\ UNCHANGED <<style, req, achievement, stages, loc, fonts, blocks, calls, history, wr>>

OpenIconFails ==
    /\ pc = "open_icon"
    /\ pc' = "raised"
    /\ UNCHANGED <<style, req, achievement, stages, loc, fonts, blocks, ret, calls, history, wr>>

ApplyGlow ==
    /\ pc = "glow"
    /\ achievement' = Paint(apply_glow(loc.icon_pos, style))
    /\ stages' = Append(stages, "Glow")
    /\ pc' = "paste"
    /\ UNCHANGED <<style, req, loc, fonts, blocks, ret, calls, history, wr>>

PasteIcon ==
    /\ pc = "paste"
    /\ achievement' = Paint([stage |-> "Icon", pos |-> loc.icon_pos,
                             size |-> <<style.icon_size, style.icon_size>>])
    /\ stages' = Append(stages, "Icon")
    /\ pc' = "title_font"
    /\ UNCHANGED <<style, req, loc, fonts, blocks, ret, calls, history, wr>>

\* title_font = find_font(FONT_PATHS, title_font_size)
LoadTitleFont(outcome, fc) ==
    /\ pc = "title_font"
    /\ LET r == find_font(FONT_PATHS, style.title_font_size, outcome, fc)
       IN  /\ fonts' = Append(fonts, [font_paths |-> FONT_PATHS, size |-> style.title_font_size,
                                      outcome |-> outcome, fc |-> fc, result |-> r])
           /\ loc' = [loc EXCEPT !.title_font = r.font]
           /\ pc' = IF r.raised THEN "raised" ELSE "desc_font"
    /\ UNCHANGED <<style, req, achievement, stages, blocks, ret, calls, history, wr>>

\* desc_font = find_font(FONT_PATHS_REGULAR, desc_font_size)
LoadDescFont(outcome, fc) ==
    /\ pc = "desc_font"
    /\ LET r == find_font(FONT_PATHS_REGULAR, style.desc_font_size, outcome, fc)
       IN  /\ fonts' = Append(fonts, [font_paths |-> FONT_PATHS_REGULAR, size |-> style.desc_font_size,
                                      outcome |-> outcome, fc |-> fc, result |-> r])
           /\ loc' = [loc EXCEPT !.desc_font = r.font]
           /\ pc' = IF r.raised THEN "raised" ELSE "title"
    /\ UNCHANGED <<style, req, achievement, stages, blocks, ret, calls, history, wr>>

BlockCall(text, font, start_pos, max_width, color, line_spacing, r) ==
    [text |-> text, font |-> font, start_pos |-> start_pos, max_width |-> max_width,
     color |-> color, line_spacing |-> line_spacing, draws |-> r.draws, y |-> r.y]

\* text_area_width, then the title block
RenderTitle ==
    /\ pc = "title"
    /\ LET text_area_width == style.width - loc.text_start_x - style.padding
           text_y == loc.icon_pos[2] + 5
           r == render_text_block(req.name, loc.title_font[1], <<loc.text_start_x, text_y>>,
                                  text_area_width, style.text_color, style.title_font_size + 2)
       IN  /\ achievement' = Paint([stage |-> "Title", draws |-> r.draws])
           /\ blocks' = Append(blocks, BlockCall(req.name, loc.title_font[1],
                                   <<loc.text_start_x, text_y>>, text_area_width,
                                   style.text_color, style.title_font_size + 2, r))
           /\ loc' = [loc EXCEPT !.text_area_width = text_area_width,
                                 !.title_y = text_y, !.text_y = r.y]
    /\ stages' = Append(stages, "Title")
    /\ pc' = "description"
    /\ UNCHANGED <<style, req, fonts, ret, calls, history, wr>>

\* text_y += 4, then the description block
RenderDescription ==
    /\ pc = "description"
    /\ LET text_y == loc.text_y + 4
           r == render_text_block(req.description, loc.desc_font[1], <<loc.text_start_x, text_y>>,
                                  loc.text_area_width, style.desc_color, style.desc_font_size + 1)
       IN  /\ achievement' = Paint([stage |-> "Description", draws |-> r.draws])
           /\ blocks' = Append(blocks, BlockCall(req.description, loc.desc_font[1],
                                   <<loc.text_start_x, text_y>>, loc.text_area_width,
                                   style.desc_color, style.desc_font_size + 1, r))
           /\ loc' = [loc EXCEPT !.desc_y = text_y, !.text_y = text_y]
    /\ stages' = Append(stages, "Description")
    /\ pc' = "return"
    /\ UNCHANGED <<style, req, fonts, ret, calls, history, wr>>

\* The layout of the finished call, as the caller can observe it.
LayoutOf(l, b) ==
    [icon_pos |-> l.icon_pos, text_start_x |-> l.text_start_x,
     text_area_width |-> l.text_area_width, title_y |-> l.title_y,
     desc_y |-> l.desc_y, title_lines |-> Len(b[1].draws)]

\* return achievement
Return ==
    /\ pc = "return"
    /\ ret' = achievement
    /\ history' = history \cup {LayoutOf(loc, blocks)}
    /\ pc' = "done"
    /\ UNCHANGED <<style, req, achievement, stages, loc, fonts, blocks, calls, wr>>

Next ==
    \/ \E name \in Names, description \in Descriptions, is_rare \in BOOLEAN :
          Call(name, description, is_rare)
    \/ CreateBase
    \/ DrawContainer
    \/ OpenIcon
    \/ OpenIconFails
    \/ ApplyGlow
    \/ PasteIcon
    \/ \E outcome \in [1..Len(FONT_PATHS) -> LoadOutcomes], fc \in FcOutcomes :
          LoadTitleFont(outcome, fc)
    \/ \E outcome \in [1..Len(FONT_PATHS_REGULAR) -> LoadOutcomes], fc \in FcOutcomes :
          LoadDescFont(outcome, fc)
    \/ RenderTitle
    \/ RenderDescription
    \/ Return

Spec == Init /\ [][Next]_vars

\* ------------------------------------------- wrap_text called on its own
WrapFonts ==
    { [src |-> "font", size |-> 1, adv |-> [c \in Chars |-> 1]],
      [src |-> "font", size |-> 2, adv |-> [c \in Chars |-> IF c = "b" THEN 2 ELSE 1]],
      [src |-> "font", size |-> 3, adv |-> [c \in Chars |-> IF c = " " THEN 0 ELSE IF c = "a" THEN 2 ELSE 3]] }

WrapTexts == UNION {[1..n -> Chars] : n \in 0..MaxLen}

InitWrap ==
    /\ style = DefaultStyle
    /\ pc = "idle"
    /\ req = NoReq
    /\ achievement = <<>>
    /\ stages = <<>>
    /\ loc = NoLoc
    /\ fonts = <<>>
    /\ blocks = <<>>
    /\ ret = <<>>
    /\ calls = 0
    /\ history = {}
    /\ \E text \in WrapTexts, font \in WrapFonts, max_width \in 0..MaxWidth :
          wr = [text |-> text, font |-> font, max_width |-> max_width,
                lines |-> <<>>, done |-> FALSE]

WrapCall ==
    /\ ~wr.done
    /\ wr' = [wr EXCEPT !.lines = wrap_text(wr.text, wr.font, wr.max_width), !.done = TRUE]
    /\ UNCHANGED <<style, pc, req, achievement, stages, loc, fonts, blocks, ret, calls, history>>

NextWrap == WrapCall

SpecWrap == InitWrap /\ [][NextWrap]_vars

\* =============================================================== claims
IsPrefix(s, t) == Len(s) <= Len(t) /\ SubSeq(t, 1, Len(s)) = s

RECURSIVE WordsOfLines(_)
WordsOfLines(lines) ==
    IF lines = <<>> THEN <<>> ELSE split(Head(lines)) \o WordsOfLines(Tail(lines))

ExpectedStages(is_rare) ==
    IF is_rare
    THEN <<"Background", "Container", "Glow", "Icon", "Title", "Description">>
    ELSE <<"Background", "Container", "Icon", "Title", "Description">>

StagesOf(image) == [k \in 1..Len(image.ops) |-> image.ops[k].stage]

\* C1: wrap_text loses, duplicates and reorders no word: the words of the
\* returned lines, taken in line order, are exactly the whitespace-split
\* tokens of the text, and the lines joined with single spaces are the
\* whitespace-normalized text.
C1_WordsPreserved ==
    wr.done =>
        /\ WordsOfLines(wr.lines) = split(wr.text)
        /\ join(wr.lines) = join(split(wr.text))

C1_Witness ==
    /\ wr.done
    /\ Len(wr.lines) >= 2
    /\ \E k \in 1..Len(wr.lines) : Len(split(wr.lines[k])) >= 2
    /\ wr.text # join(split(wr.text))

\* C2: for a non-empty text and max_width > 0, a returned line that measures
\* wider than max_width consists of one single word; no line of two or more
\* words is wider than max_width.
C2_MultiWordLinesFit ==
    (wr.done /\ wr.text # <<>> /\ wr.max_width > 0) =>
        \A k \in 1..Len(wr.lines) :
            Len(split(wr.lines[k])) >= 2 => getlength(wr.font, wr.lines[k]) <= wr.max_width

C2_Witness ==
    /\ wr.done
    /\ wr.max_width > 0
    /\ \E k \in 1..Len(wr.lines) :
          Len(split(wr.lines[k])) >= 2 /\ getlength(wr.font, wr.lines[k]) = wr.max_width
    /\ \E k \in 1..Len(wr.lines) : getlength(wr.font, wr.lines[k]) > wr.max_width

\* C9: a text that is one single word wider than max_width comes back as
\* exactly one line, and that line is the word itself, unsplit and uncut.
C9_OverlongWordKept ==
    (wr.done /\ Len(split(wr.text)) = 1
             /\ getlength(wr.font, split(wr.text)[1]) > wr.max_width) =>
        wr.lines = <<split(wr.text)[1]>>

C9_Witness ==
    /\ wr.done
    /\ Len(split(wr.text)) = 1
    /\ Len(split(wr.text)[1]) >= 3
    /\ getlength(wr.font, split(wr.text)[1]) > wr.max_width
    /\ wr.max_width > 0

\* The font the find_font contract promises for the given attempt outcomes.
PromisedFont(c) ==
    IF \E k \in 1..Len(c.font_paths) : c.outcome[k] = "ok"
    THEN LET k == CHOOSE j \in 1..Len(c.font_paths) :
                     c.outcome[j] = "ok" /\ \A h \in 1..(j - 1) : c.outcome[h] # "ok"
         IN  FontHandle(c.font_paths[k], c.size)
    ELSE IF c.fc = "ok" THEN FontHandle("fc-match", c.size)
    ELSE FontHandle("load_default", c.size)

\* C3: find_font never fails: however the attempts fail, it returns the
\* first font of the list that loads, else the fc-match font, else the
\* built-in default, and raises nothing to its caller.
C3_FindFontNeverRaises ==
    \A n \in 1..Len(fonts) :
        /\ ~fonts[n].result.raised
        /\ fonts[n].result.font = <<PromisedFont(fonts[n])>>

\* C4: the paint stages of a call happen in the order Background, Container,
\* Glow, Icon, Title, Description, each at most once; Glow only when is_rare,
\* after Container and before Icon; a call that returns has done them all,
\* with Glow exactly when is_rare.
C4_StageOrder ==
    /\ IsPrefix(stages, ExpectedStages(req.is_rare))
    /\ achievement # <<>> => StagesOf(achievement[1]) = stages
    /\ pc = "done" => stages = ExpectedStages(req.is_rare)
    /\ pc = "paste" => stages = SubSeq(ExpectedStages(req.is_rare), 1, IF req.is_rare THEN 3 ELSE 2)

C4_Witness ==
    /\ pc = "done"
    /\ req.is_rare
    /\ stages = <<"Background", "Container", "Glow", "Icon", "Title", "Description">>

\* C5: a canvas handed to the caller has every stage the request needs
\* painted on it; a call in which a step raised hands back no canvas.
C5_NoPartialCanvas ==
    /\ ret # <<>> =>
          /\ pc = "done"
          /\ ret = achievement
          /\ StagesOf(ret[1]) = ExpectedStages(req.is_rare)
    /\ pc = "raised" => ret = <<>>

C5_Witness ==
    /\ pc = "raised"
    /\ ret = <<>>
    /\ achievement # <<>>
    /\ StagesOf(achievement[1]) = <<"Background", "Container">>

Coords(h) == <<h.icon_pos, h.text_start_x, h.text_area_width, h.title_y, h.desc_y>>

\* C6 as stated: all renders of one style place icon, title block and
\* description block at the same coordinates, whatever the content.
C6_LayoutOfStyleOnly ==
    \A a \in history, b \in history : Coords(a) = Coords(b)

\* C6 as amended: icon position, text column start and width and title
\* start y are the same for all renders of one style; the description
\* start y is the title start y plus min(n, 2) title line spacings plus 4,
\* n being the number of lines the title wraps to.
C6_LayoutAmended ==
    /\ \A a \in history, b \in history :
          /\ a.icon_pos = b.icon_pos
          /\ a.text_start_x = b.text_start_x
          /\ a.text_area_width = b.text_area_width
          /\ a.title_y = b.title_y
          /\ a.title_lines = b.title_lines => a.desc_y = b.desc_y
    /\ \A a \in history :
          /\ a.title_lines \in 0..2
          /\ a.desc_y = a.title_y + a.title_lines * (style.title_font_size + 2) + 4
    /\ pc \in {"return", "done"} =>
          loc.desc_y = loc.title_y + 4 + (style.title_font_size + 2) *
              Min(Len(wrap_text(req.name, loc.title_font[1], loc.text_area_width)), 2)

C6_Witness ==
    /\ pc = "done"
    /\ \E a \in history, b \in history :
          /\ a.desc_y # b.desc_y
          /\ a.title_lines = 0
          /\ b.title_lines = 2

\* C7: render_text_block draws the first min(n, 2) of the n wrapped lines,
\* in order, unchanged, one line_spacing apart from the start position, and
\* returns start y + min(n, 2) * line_spacing; further lines are not drawn.
C7_FirstTwoLines ==
    \A j \in 1..Len(blocks) :
        LET b == blocks[j]
            lines == wrap_text(b.text, b.font, b.max_width)
            m == Min(Len(lines), 2)
        IN  /\ Len(b.draws) = m
            /\ \A k \in 1..m :
                  /\ b.draws[k].text = lines[k]
                  /\ b.draws[k].xy = <<b.start_pos[1], b.start_pos[2] + (k - 1) * b.line_spacing>>
            /\ b.y = b.start_pos[2] + m * b.line_spacing

C7_Witness ==
    \E j \in 1..Len(blocks) :
        /\ Len(wrap_text(blocks[j].text, blocks[j].font, blocks[j].max_width)) >= 3
        /\ Len(blocks[j].draws) = 2

\* C8: the returned canvas is width x height; the icon is at (padding,
\* (height - icon_size) div 2); the text column starts at padding +
\* icon_size + padding and is width - text_start_x - padding wide; the title
\* starts at icon_y + 5.  Default style: 520 x 96, icon at (16, 16), title at
\* x = 96, column 408 wide.
C8_Layout ==
    pc = "done" =>
        LET icon_y == (style.height - style.icon_size) \div 2
            text_start_x == style.padding + style.icon_size + style.padding
        IN  /\ ret[1].size = <<style.width, style.height>>
            /\ \A k \in 1..Len(ret[1].ops) :
                  ret[1].ops[k].stage = "Icon" => ret[1].ops[k].pos = <<style.padding, icon_y>>
            /\ blocks[1].start_pos = <<text_start_x, icon_y + 5>>
            /\ blocks[2].start_pos[1] = text_start_x
            /\ \A j \in 1..2 : blocks[j].max_width = style.width - text_start_x - style.padding
            /\ style = DefaultStyle =>
                  /\ ret[1].size = <<520, 96>>
                  /\ loc.icon_pos = <<16, 16>>
                  /\ blocks[1].start_pos[1] = 96
                  /\ blocks[1].max_width = 408

C8_Witness ==
    /\ pc = "done"
    /\ style = DefaultStyle
    /\ Len(blocks) = 2
    /\ \E k \in 1..Len(ret[1].ops) : ret[1].ops[k].stage = "Icon"

GlowMasks == {achievement[1].ops[k].mask :
                 k \in {j \in 1..Len(achievement[1].ops) : achievement[1].ops[j].stage = "Glow"}}

\* C10 as stated: ring i of the mask is filled with
\* round((1 - (i / radius)^1.5) * 255), the nearest integer.
C10_RoundedOpacity ==
    achievement # <<>> =>
        \A m \in GlowMasks : \A k \in 1..Len(m.rings) :
            m.rings[k].fill = opacity_round(m.rings[k].i, Len(m.rings))

\* C10 as amended: the rings are drawn for i = radius down to 1, and ring i
\* is filled with the integer part f of v = (1 - (i / radius)^1.5) * 255,
\* that is f <= v < f + 1; so the fill of ring radius is 0, the fill never
\* decreases toward the centre, and every fill is in 0..255.
C10_TruncatedOpacity ==
    achievement # <<>> =>
        \A m \in GlowMasks :
            LET radius == Len(m.rings)
                r3 == radius * radius * radius
                g == GCD(r3, 255 * 255)
                d == r3 \div g
                c == (255 * 255) \div g
            IN  /\ radius = style.glow_radius
                /\ \A k \in 1..radius :
                      LET i == m.rings[k].i
                          f == m.rings[k].fill
                      IN  /\ i = radius - k + 1
                          /\ f \in 0..255
                          /\ (255 - f) * (255 - f) * d >= c * i * i * i
                          /\ f < 255 => (254 - f) * (254 - f) * d < c * i * i * i
                          /\ k > 1 => m.rings[k - 1].fill <= f
                /\ m.rings[1].fill = 0

C10_Witness ==
    /\ achievement # <<>>
    /\ \E m \in GlowMasks :
          /\ Len(m.rings) = 40
          /\ m.rings[40].fill > m.rings[2].fill
          /\ m.rings[2].fill = 9

====
